---- MODULE Spec2Model ----
(***************************************************************************)
(* A model of cotton-eye-pomodoro.py: the PomodoroWindow session engine    *)
(* (toggle_start, on_tick, open_settings), the settings helpers and the    *)
(* garden.  Text is a sequence of one-character strings; Python's None for *)
(* a timestamp is the value None below.  The QTimer fires once every       *)
(* TickSeconds and `now` is the reading of time.time() at the latest tick, *)
(* in whole seconds (see clock_after for its origin).  The labels, the     *)
(* button texts and the fields that are written but never read             *)
(* (use_minute_format, last_overtime_speech_time) are left out.            *)
(***************************************************************************)
EXTENDS Integers, Sequences, FiniteSets, TLC

\* ---------------------------------------------------------------- bounds

\* A run follows one kind of period at full length (the variable followed):
\* an off-task episode for MaxOffTask seconds, the net progress of its first
\* MaxSessions work sessions for MaxProgress seconds, or a break for MaxBreak
\* ticks.  Every other period is followed for MaxElapsed ticks.
MaxOffTask == 26

MaxProgress == 60

MaxBreak == 62

MaxElapsed == 2

MaxSessions == 1

\* When a session of the engine completes, random.choice draws the slot and
\* the flower among the first MaxGardenChoice candidates.
MaxGardenChoice == 1

\* In the garden alone random.choice(FLOWERS) is drawn among the first
\* MaxFlowerChoice variants.
MaxFlowerChoice == 2

\* The garden alone is followed for this many completed sessions.
MaxGardenSessions == 7

\* ----------------------------------------------------- program constants

TickSeconds == 1

SecondsPerMinute == 60

GardenSlots == 5

NumFlowers == 17

FirstNotifyDelay == 5

RepeatNotifyDelay == 10

None == -1

PLANT == 0

FLOWERS == 1..NumFlowers

\* ------------------------------------------------------------------ text

blender == <<"b", "l", "e", "n", "d", "e", "r">>

houdini == <<"h", "o", "u", "d", "i", "n", "i">>

DEFAULT_SETTINGS ==
  [right_apps |-> <<blender, houdini>>, work_minutes |-> 25, break_minutes |-> 5]

Min(a, b) == IF a <= b THEN a ELSE b

Max(a, b) == IF a >= b THEN a ELSE b

\* str.lower(), on the letters the model uses
LowerChar(c) ==
  CASE c = "B" -> "b"
    [] c = "H" -> "h"
    [] c = "X" -> "x"
    [] OTHER -> c

lower(s) == [i \in 1..Len(s) |-> LowerChar(s[i])]

\* Python's `frag in text` on strings
Contains(text, frag) ==
  \E i \in 0..(Len(text) - Len(frag)) : SubSeq(text, i + 1, i + Len(frag)) = frag

IsSpace(c) == c = " "

RECURSIVE lstrip(_)
lstrip(s) == IF s # <<>> /\ IsSpace(Head(s)) THEN lstrip(Tail(s)) ELSE s

RECURSIVE rstrip(_)
rstrip(s) ==
  IF s # <<>> /\ IsSpace(s[Len(s)]) THEN rstrip(SubSeq(s, 1, Len(s) - 1)) ELSE s

strip(s) == rstrip(lstrip(s))

\* str.split(","): the pieces between commas, empty pieces kept
RECURSIVE split_acc(_, _, _)
split_acc(s, cur, acc) ==
  IF s = <<>> THEN Append(acc, cur)
  ELSE IF Head(s) = "," THEN split_acc(Tail(s), <<>>, Append(acc, cur))
  ELSE split_acc(Tail(s), Append(cur, Head(s)), acc)

split(s) == split_acc(s, <<>>, <<>>)

Digits == {"0", "1", "2", "3", "4", "5", "6", "7", "8", "9"}

DigitVal(c) ==
  CASE c = "0" -> 0 [] c = "1" -> 1 [] c = "2" -> 2 [] c = "3" -> 3
    [] c = "4" -> 4 [] c = "5" -> 5 [] c = "6" -> 6 [] c = "7" -> 7
    [] c = "8" -> 8 [] c = "9" -> 9

RECURSIVE DigitsVal(_, _)
DigitsVal(s, acc) ==
  IF s = <<>> THEN acc ELSE DigitsVal(Tail(s), 10 * acc + DigitVal(Head(s)))

\* int(text): surrounding blanks dropped, an optional sign, then digits only;
\* anything else raises ValueError (ok = FALSE).
int(text) ==
  LET t == strip(text)
      signed == t # <<>> /\ Head(t) \in {"-", "+"}
      body == IF signed THEN Tail(t) ELSE t
      ok == body # <<>> /\ \A i \in 1..Len(body) : body[i] \in Digits
  IN  [ok |-> ok,
       val |-> IF ~ok THEN 0
               ELSE IF signed /\ Head(t) = "-" THEN 0 - DigitsVal(body, 0)
               ELSE DigitsVal(body, 0)]

\* -------------------------------------------------------------- settings

SettingsKeys == {"right_apps", "work_minutes", "break_minutes"}

\* A settings file: absent, unparsable, or a JSON object (a function from
\* the keys it holds to their values).
NoFile == [kind |-> "missing"]

BadFile == [kind |-> "unparsable"]

ObjectFile(data) == [kind |-> "object", data |-> data]

\* Well-formed JSON that is no object: [], 5, "abc", null.
NonRecordKinds == {"list", "number", "string", "null"}

NonRecordFile(kind) == [kind |-> kind]

\* Whether load_settings raises.  The merge loop runs outside the try: on
\* [] and "abc" the test `k not in data` is true and data[k] = v raises
\* TypeError, on 5 and null the test itself raises TypeError.
load_settings_raises(file) == file.kind \in NonRecordKinds

\* the stored fields overwritten by the defaults
load_settings_defaults_win(file) ==
  IF file.kind = "missing" THEN DEFAULT_SETTINGS
  ELSE IF file.kind = "unparsable" THEN DEFAULT_SETTINGS
  ELSE [k \in (DOMAIN file.data) \cup SettingsKeys |->
          IF k \in SettingsKeys THEN DEFAULT_SETTINGS[k] ELSE file.data[k]]

\* What load_settings returns when it does not raise.
load_settings(file) ==
  IF file.kind = "missing" THEN DEFAULT_SETTINGS
  ELSE IF file.kind = "unparsable" THEN DEFAULT_SETTINGS
  ELSE [k \in (DOMAIN file.data) \cup SettingsKeys |->
          IF k \in DOMAIN file.data THEN file.data[k] ELSE DEFAULT_SETTINGS[k]]

RECURSIVE strip_nonempty(_)
strip_nonempty(parts) ==
  IF parts = <<>> THEN <<>>
  ELSE IF strip(Head(parts)) # <<>>
       THEN <<strip(Head(parts))>> \o strip_nonempty(Tail(parts))
       ELSE strip_nonempty(Tail(parts))

\* the minutes taken as typed
MinMinutes_unclamped(n) == n

MinMinutes(n) == Max(1, n)

get_settings(old, apps_raw, work_text, break_text) ==
  LET right_apps == strip_nonempty(split(apps_raw))
      w == int(work_text)
      b == int(break_text)
      work_minutes == IF w.ok THEN w.val ELSE DEFAULT_SETTINGS.work_minutes
      break_minutes == IF b.ok THEN b.val ELSE DEFAULT_SETTINGS.break_minutes
  IN  [old EXCEPT
         !.right_apps = IF right_apps # <<>> THEN right_apps
                        ELSE DEFAULT_SETTINGS.right_apps,
         !.work_minutes = MinMinutes(work_minutes),
         !.break_minutes = MinMinutes(break_minutes)]

\* is_right of on_tick: any fragment inside the title or the process name
is_right_app(title, proc, right_apps) ==
  \E i \in 1..Len(right_apps) :
     \/ Contains(lower(title), lower(right_apps[i]))
     \/ Contains(lower(proc), lower(right_apps[i]))

\* ---------------------------------------------------------------- garden

seedling_positions(g) == {i \in 1..Len(g) : g[i] = PLANT}

\* any slot, whether or not a seedling is left
garden_positions_any(g) == 1..GardenSlots

\* where update_garden_after_session may write: random.choice of the
\* seedling positions, or random.randrange(5) when none is left
garden_positions(g) ==
  IF seedling_positions(g) # {} THEN seedling_positions(g) ELSE 1..GardenSlots

FlowerChoices == {f \in FLOWERS : f <= MaxFlowerChoice}

\* the session is counted and the chosen slot is left as it was
update_garden_counts_only(g, pos, flower) == g

update_garden_after_session(g, pos, flower) == [g EXCEPT ![pos] = flower]

\* a session counted twice
next_session_count_twice(n) == n + 2

next_session_count(n) == n + 1

\* ----------------------------------------------------------------- state

VARIABLES
  settings, work_total_seconds, break_total_seconds,
  is_running, is_on_break, is_wrong_app, is_stopped_counting,
  remaining_seconds, break_elapsed_seconds, stopped_elapsed_seconds,
  idle_elapsed_seconds, wrong_app_start_time, wrong_app_notified_time,
  break_overtime_notified, idle_annoying_song_playing, annoying_song_playing,
  session_count, garden,
  timer_active,     \* QTimer.isActive()
  now,              \* time.time() at the latest tick
  mp3_files,        \* annoying_songs_mp3 holds at least one .mp3
  settings_file,    \* what pomodoro_settings.json holds
  dialog,           \* the text of the three fields of the dialog at its OK
  raised,           \* the handler that ran last ended in an exception
  followed,         \* the period this run follows at full length
  op,               \* the handler that ran last
  probed,           \* that handler queried the foreground window
  is_right,         \* on_tick's local is_right, when probed
  effects           \* the tone / notification / player calls it made, in order

vars ==
  <<settings, work_total_seconds, break_total_seconds,
    is_running, is_on_break, is_wrong_app, is_stopped_counting,
    remaining_seconds, break_elapsed_seconds, stopped_elapsed_seconds,
    idle_elapsed_seconds, wrong_app_start_time, wrong_app_notified_time,
    break_overtime_notified, idle_annoying_song_playing, annoying_song_playing,
    session_count, garden, timer_active, now, mp3_files, settings_file,
    dialog, raised, followed, op, probed, is_right, effects>>

Followed == {"work", "break", "wrong_app"}

\* how long a period of this kind is followed
Limit(kind, long) == IF followed = kind THEN long ELSE MaxElapsed

\* settings files the program starts from: none, and one save_settings wrote
\* before the right_apps field existed
InitFiles ==
  {NoFile, ObjectFile([work_minutes |-> 1, break_minutes |-> 1])}

\* the player started without annoying_song_playing being set
song_after_play_unset(playing) == playing

\* play_annoying_song_loop: silently does nothing without an mp3
song_after_play(playing) == IF mp3_files THEN TRUE ELSE playing

play_effects == IF mp3_files THEN <<"song:play">> ELSE <<>>

TotalSeconds(minutes) == minutes * SecondsPerMinute

\* no dialog has been accepted yet
NoDialog == <<<<>>, <<>>, <<>>>>

Init ==
  /\ settings_file \in InitFiles
  /\ settings = load_settings(settings_file)
  /\ dialog = NoDialog
  /\ raised = FALSE
  /\ mp3_files \in BOOLEAN
  /\ followed \in Followed
  /\ is_running = FALSE
  /\ is_on_break = FALSE
  /\ is_wrong_app = FALSE
  /\ is_stopped_counting = FALSE
  /\ break_elapsed_seconds = 0
  /\ stopped_elapsed_seconds = 0
  /\ idle_elapsed_seconds = 0
  /\ wrong_app_start_time = None
  /\ wrong_app_notified_time = None
  /\ break_overtime_notified = FALSE
  /\ work_total_seconds = TotalSeconds(settings.work_minutes)
  /\ break_total_seconds = TotalSeconds(settings.break_minutes)
  /\ remaining_seconds = work_total_seconds
  /\ session_count = 0
  /\ garden = [i \in 1..GardenSlots |-> PLANT]
  /\ timer_active = TRUE
  /\ annoying_song_playing = song_after_play(FALSE)
  /\ idle_annoying_song_playing = TRUE
  /\ now = 0
  /\ op = "init"
  /\ probed = FALSE
  /\ is_right = FALSE
  /\ effects = play_effects

\* update_garden_after_session on the window's garden and counter
record_completed_session(positions, flowers) ==
  /\ session_count' = next_session_count(session_count)
  /\ \E pos \in positions, flower \in flowers :
       garden' = update_garden_after_session(garden, pos, flower)

\* the lowest n members of a set of numbers
Lowest(S, n) == {x \in S : Cardinality({y \in S : y < x}) < n}

\* -------------------------------------------------------------- commands

\* Start after a stop resumes the work session instead of skipping to the break.
ToggleBranch_resume(stopped, running, on_break) ==
  IF ~running /\ ~on_break THEN "start_pomodoro"
  ELSE IF running THEN "stop_work"
  ELSE IF on_break THEN "stop_all"
  ELSE "nothing"

\* The branch toggle_start takes on the three flags.
ToggleBranch(stopped, running, on_break) ==
  IF stopped THEN "skip_to_break"
  ELSE IF ~running /\ ~on_break THEN "start_pomodoro"
  ELSE IF running THEN "stop_work"
  ELSE IF on_break THEN "stop_all"
  ELSE "nothing"

\* the skip to the break without the reset of break_elapsed_seconds
skip_to_break_keep_elapsed ==
  /\ is_stopped_counting' = FALSE
  /\ stopped_elapsed_seconds' = 0
  /\ idle_elapsed_seconds' = 0
  /\ is_on_break' = TRUE
  /\ break_overtime_notified' = FALSE
  /\ timer_active' = TRUE
  /\ effects' = <<>>
  /\ UNCHANGED <<is_running, is_wrong_app, remaining_seconds,
                 break_elapsed_seconds, wrong_app_start_time,
                 wrong_app_notified_time, idle_annoying_song_playing,
                 annoying_song_playing>>

\* toggle_start while is_stopped_counting: straight to the break
skip_to_break ==
  /\ is_stopped_counting' = FALSE
  /\ stopped_elapsed_seconds' = 0
  /\ idle_elapsed_seconds' = 0
  /\ break_elapsed_seconds' = 0
  /\ is_on_break' = TRUE
  /\ break_overtime_notified' = FALSE
  /\ timer_active' = TRUE
  /\ effects' = <<>>
  /\ UNCHANGED <<is_running, is_wrong_app, remaining_seconds,
                 wrong_app_start_time, wrong_app_notified_time,
                 idle_annoying_song_playing, annoying_song_playing>>

start_pomodoro ==
  /\ is_running' = TRUE
  /\ is_on_break' = FALSE
  /\ is_stopped_counting' = FALSE
  /\ stopped_elapsed_seconds' = 0
  /\ idle_elapsed_seconds' = 0
  /\ remaining_seconds' = work_total_seconds
  /\ IF idle_annoying_song_playing
       THEN /\ annoying_song_playing' = FALSE
            /\ idle_annoying_song_playing' = FALSE
            /\ effects' = <<"song:stop">>
       ELSE /\ UNCHANGED <<annoying_song_playing, idle_annoying_song_playing>>
            /\ effects' = <<>>
  /\ timer_active' = TRUE
  /\ UNCHANGED <<is_wrong_app, break_elapsed_seconds, wrong_app_start_time,
                 wrong_app_notified_time, break_overtime_notified>>

\* the stop that forgets to clear the two timestamps
stop_work_keeps_tracking ==
  /\ is_running' = FALSE
  /\ is_wrong_app' = FALSE
  /\ is_stopped_counting' = TRUE
  /\ stopped_elapsed_seconds' = 0
  /\ idle_elapsed_seconds' = 0
  /\ effects' = <<>>
  /\ UNCHANGED <<is_on_break, remaining_seconds, break_elapsed_seconds,
                 break_overtime_notified, idle_annoying_song_playing,
                 annoying_song_playing, timer_active, wrong_app_start_time,
                 wrong_app_notified_time>>

\* the stop that leaves is_wrong_app as the last tick set it
stop_work_keeps_wrong_app ==
  /\ is_running' = FALSE
  /\ wrong_app_start_time' = None
  /\ wrong_app_notified_time' = None
  /\ is_stopped_counting' = TRUE
  /\ stopped_elapsed_seconds' = 0
  /\ idle_elapsed_seconds' = 0
  /\ effects' = <<>>
  /\ UNCHANGED <<is_on_break, remaining_seconds, break_elapsed_seconds,
                 break_overtime_notified, idle_annoying_song_playing,
                 annoying_song_playing, timer_active, is_wrong_app>>

stop_work ==
  /\ is_running' = FALSE
  /\ is_wrong_app' = FALSE
  /\ wrong_app_start_time' = None
  /\ wrong_app_notified_time' = None
  /\ is_stopped_counting' = TRUE
  /\ stopped_elapsed_seconds' = 0
  /\ idle_elapsed_seconds' = 0
  /\ effects' = <<>>
  /\ UNCHANGED <<is_on_break, remaining_seconds, break_elapsed_seconds,
                 break_overtime_notified, idle_annoying_song_playing,
                 annoying_song_playing, timer_active>>

stop_all ==
  /\ is_running' = FALSE
  /\ is_on_break' = FALSE
  /\ is_wrong_app' = FALSE
  /\ is_stopped_counting' = FALSE
  /\ wrong_app_start_time' = None
  /\ wrong_app_notified_time' = None
  /\ break_overtime_notified' = FALSE
  /\ stopped_elapsed_seconds' = 0
  /\ idle_elapsed_seconds' = 0
  /\ timer_active' = FALSE
  /\ remaining_seconds' = work_total_seconds
  /\ annoying_song_playing' = song_after_play(annoying_song_playing)
  /\ effects' = play_effects
  /\ idle_annoying_song_playing' = TRUE
  /\ UNCHANGED break_elapsed_seconds

\* what no command touches
CommandFrame ==
  /\ probed' = FALSE
  /\ is_right' = FALSE
  /\ UNCHANGED <<session_count, garden, now, mp3_files, followed>>

toggle_start ==
  /\ op' = "toggle_start"
  /\ LET branch == ToggleBranch(is_stopped_counting, is_running, is_on_break)
     IN  \/ branch = "skip_to_break" /\ skip_to_break
         \/ branch = "start_pomodoro" /\ start_pomodoro
         \/ branch = "stop_work" /\ stop_work
         \/ branch = "stop_all" /\ stop_all
  /\ CommandFrame
  /\ raised' = FALSE
  /\ UNCHANGED <<settings, work_total_seconds, break_total_seconds, dialog,
                 settings_file>>

\* What the user leaves in the three fields of the dialog on OK.
DialogTexts ==
  {<<<<" ", "B", ",">>, <<"1">>, <<" ", "1">>>>,
   <<<<" ", ",">>, <<"x">>, <<"-", "2">>>>}

\* Whether save_settings can write the file.  In the runs of Spec it can.
SaveOutcomes == {TRUE}

\* open_settings, accepted, where the write of the file ends as one of
\* outcomes.  save_settings has no handler around it: when the file cannot be
\* written the exception leaves the slot after self.settings was assigned.
apply_settings(outcomes) ==
  \E texts \in DialogTexts, saved \in outcomes :
        /\ op' = "open_settings"
        /\ effects' = <<>>
        /\ dialog' = texts
        /\ raised' = ~saved
        /\ settings' = get_settings(settings, texts[1], texts[2], texts[3])
        /\ settings_file' = IF saved THEN ObjectFile(settings')
                            ELSE settings_file
        /\ IF saved
             THEN /\ work_total_seconds' = TotalSeconds(settings'.work_minutes)
                  /\ break_total_seconds' =
                       TotalSeconds(settings'.break_minutes)
                  /\ IF is_running
                       THEN /\ remaining_seconds' = work_total_seconds'
                            /\ UNCHANGED break_elapsed_seconds
                       ELSE IF is_on_break
                       THEN /\ break_elapsed_seconds' = 0
                            /\ UNCHANGED remaining_seconds
                       ELSE /\ remaining_seconds' = work_total_seconds'
                            /\ UNCHANGED break_elapsed_seconds
             ELSE UNCHANGED <<work_total_seconds, break_total_seconds,
                              remaining_seconds, break_elapsed_seconds>>
        /\ CommandFrame
        /\ UNCHANGED <<is_running, is_on_break, is_wrong_app,
                       is_stopped_counting, stopped_elapsed_seconds,
                       idle_elapsed_seconds, wrong_app_start_time,
                       wrong_app_notified_time, break_overtime_notified,
                       idle_annoying_song_playing, annoying_song_playing,
                       timer_active>>

open_settings == apply_settings(SaveOutcomes)

\* The same with a settings file that may or may not be writable.
open_settings_any_save == apply_settings(BOOLEAN)

\* ------------------------------------------------------------ the dialog

AppsTexts ==
  {<<>>, <<" ">>, <<" ", ",", ",">>, <<"B">>, <<" ", "B", ",">>,
   <<"B", ",", " ", "x", " ", "h", " ">>, <<",", "x">>}

MinutesTexts ==
  {<<>>, <<"x">>, <<"0">>, <<"1">>, <<" ", "1", " ">>, <<"-", "2">>,
   <<"3", "0">>, <<"2", ".", "5">>, <<"+", "3">>, <<"-">>}

\* What the three fields can hold when OK is pressed.
DialogInputs == AppsTexts \X MinutesTexts \X MinutesTexts

\* SettingsDialog.get_settings on the dialog's copy of the settings, as
\* open_settings assigns its result to self.settings.
get_settings_accepted ==
  \E texts \in DialogInputs :
    /\ dialog = NoDialog
    /\ op' = "get_settings"
    /\ dialog' = texts
    /\ settings' = get_settings(settings, texts[1], texts[2], texts[3])
    /\ UNCHANGED <<work_total_seconds, break_total_seconds, is_running,
                   is_on_break, is_wrong_app, is_stopped_counting,
                   remaining_seconds, break_elapsed_seconds,
                   stopped_elapsed_seconds, idle_elapsed_seconds,
                   wrong_app_start_time, wrong_app_notified_time,
                   break_overtime_notified, idle_annoying_song_playing,
                   annoying_song_playing, session_count, garden,
                   timer_active, now, mp3_files, settings_file, raised,
                   followed, probed, is_right, effects>>

DialogSpec == Init /\ [][get_settings_accepted]_vars

\* ------------------------------------------------------ the settings file

StoredApps == {<<blender>>, <<>>}

StoredMinutes == {0, 1, 30}

Restrict(f, K) == [k \in K |-> f[k]]

\* Records a settings file can hold: any subset of the three fields.
StoredRecords ==
  {Restrict([right_apps |-> a, work_minutes |-> w, break_minutes |-> b], K) :
     a \in StoredApps, w \in StoredMinutes, b \in StoredMinutes,
     K \in SUBSET SettingsKeys}

JsonFiles ==
  {NoFile, BadFile} \cup {NonRecordFile(k) : k \in NonRecordKinds}
    \cup {ObjectFile(d) : d \in StoredRecords}

\* The process before PomodoroWindow() is built, for each file it may find.
\* The fields the constructor has yet to assign are shown with the values it
\* gives them whatever the file holds.
LoadInit ==
  /\ settings_file \in JsonFiles
  /\ settings = <<>>
  /\ work_total_seconds = 0
  /\ break_total_seconds = 0
  /\ remaining_seconds = 0
  /\ op = "main"
  /\ raised = FALSE
  /\ dialog = NoDialog
  /\ mp3_files = FALSE
  /\ followed = "work"
  /\ is_running = FALSE
  /\ is_on_break = FALSE
  /\ is_wrong_app = FALSE
  /\ is_stopped_counting = FALSE
  /\ break_elapsed_seconds = 0
  /\ stopped_elapsed_seconds = 0
  /\ idle_elapsed_seconds = 0
  /\ wrong_app_start_time = None
  /\ wrong_app_notified_time = None
  /\ break_overtime_notified = FALSE
  /\ session_count = 0
  /\ garden = [i \in 1..GardenSlots |-> PLANT]
  /\ timer_active = FALSE
  /\ annoying_song_playing = FALSE
  /\ idle_annoying_song_playing = FALSE
  /\ now = 0
  /\ probed = FALSE
  /\ is_right = FALSE
  /\ effects = <<>>

\* PomodoroWindow.__init__ up to the totals: load_settings, then the seconds
\* of the two periods.  When load_settings raises, the constructor ends there.
load_at_startup ==
  /\ op = "main"
  /\ op' = "load_settings"
  /\ raised' = load_settings_raises(settings_file)
  /\ IF raised'
       THEN UNCHANGED <<settings, work_total_seconds, break_total_seconds,
                        remaining_seconds>>
       ELSE /\ settings' = load_settings(settings_file)
            /\ work_total_seconds' = TotalSeconds(settings'.work_minutes)
            /\ break_total_seconds' = TotalSeconds(settings'.break_minutes)
            /\ remaining_seconds' = work_total_seconds'
  /\ UNCHANGED <<is_running, is_on_break, is_wrong_app, is_stopped_counting,
                 break_elapsed_seconds, stopped_elapsed_seconds,
                 idle_elapsed_seconds, wrong_app_start_time,
                 wrong_app_notified_time, break_overtime_notified,
                 idle_annoying_song_playing, annoying_song_playing,
                 session_count, garden, timer_active, now, mp3_files,
                 settings_file, dialog, followed, probed, is_right, effects>>

LoadSpec == LoadInit /\ [][load_at_startup]_vars

\* ------------------------------------------------------------------ tick

\* What the foreground window probe can return: (title, process name).
Probes ==
  {<<<<"B", "l", "e", "n", "d", "e", "r", " ", "4">>, <<>>>>,
   <<<<"x">>, <<"h", "o", "u", "d", "i", "n", "i">>>>,
   <<<<>>, <<>>>>,
   <<<<"x">>, <<"x">>>>}

\* two seconds of progress for each second on task
on_task_remaining_double(r) == r - 2

on_task_remaining(r) == r - 1

\* the clamp of line 561 left out
off_task_remaining_unclamped(r, total) == r + 1

\* an off-task second counts down like an on-task one
off_task_remaining_counts_down(r, total) == r - 1

off_task_remaining(r, total) == Min(r + 1, total)

\* the session ends with one second left
work_complete_early(r) == r <= 1

\* the session ends one tick after zero
work_complete_late(r) == r < 0

work_complete(r) == r <= 0

\* the first notification waits for more than FirstNotifyDelay seconds
should_notify_strict(current_time, start, notified) ==
  \/ (current_time - start > FirstNotifyDelay /\ notified = None)
  \/ (notified # None /\ current_time - notified >= RepeatNotifyDelay)

\* should_notify of the off-task branch: start and notified are the two
\* timestamps after the start time was recorded
should_notify(current_time, start, notified) ==
  \/ (current_time - start >= FirstNotifyDelay /\ notified = None)
  \/ (notified # None /\ current_time - notified >= RepeatNotifyDelay)

\* the overtime branch without its once-only flag
overtime_starts_every_tick(remaining, notified) == remaining < 0

overtime_starts(remaining, notified) == remaining < 0 /\ ~notified

\* The clock is read against an origin that moves to the present whenever the
\* program holds no timestamp: only differences of readings are ever used.
clock_after(current_time, start) == IF start = None THEN 0 ELSE current_time

\* what no tick touches
TickFrame ==
  /\ raised' = FALSE
  /\ UNCHANGED <<settings, work_total_seconds, break_total_seconds, mp3_files,
                 settings_file, dialog, followed>>

tick_idle ==
  /\ ~is_running /\ ~is_on_break /\ ~is_stopped_counting
  /\ idle_elapsed_seconds < MaxElapsed
  /\ idle_elapsed_seconds' = idle_elapsed_seconds + 1
  /\ probed' = FALSE
  /\ is_right' = FALSE
  /\ effects' = <<>>
  /\ UNCHANGED <<is_running, is_on_break, is_wrong_app, is_stopped_counting,
                 remaining_seconds, break_elapsed_seconds,
                 stopped_elapsed_seconds, wrong_app_start_time,
                 wrong_app_notified_time, break_overtime_notified,
                 idle_annoying_song_playing, annoying_song_playing,
                 session_count, garden, timer_active, now>>

tick_stopped ==
  /\ ~(~is_running /\ ~is_on_break /\ ~is_stopped_counting)
  /\ is_stopped_counting
  /\ stopped_elapsed_seconds < MaxElapsed
  /\ stopped_elapsed_seconds' = stopped_elapsed_seconds + 1
  /\ probed' = FALSE
  /\ is_right' = FALSE
  /\ effects' = <<>>
  /\ UNCHANGED <<is_running, is_on_break, is_wrong_app, is_stopped_counting,
                 remaining_seconds, break_elapsed_seconds,
                 idle_elapsed_seconds, wrong_app_start_time,
                 wrong_app_notified_time, break_overtime_notified,
                 idle_annoying_song_playing, annoying_song_playing,
                 session_count, garden, timer_active, now>>

\* last_overtime_speech_time is written wherever break_overtime_notified is
\* (a time with TRUE, None with FALSE) and is never read: the flag stands
\* for both.
\* the break tick that also counts remaining_seconds down
tick_break_counts_remaining ==
  /\ ~(~is_running /\ ~is_on_break /\ ~is_stopped_counting)
  /\ ~is_stopped_counting
  /\ is_on_break
  /\ break_elapsed_seconds < Limit("break", MaxBreak)
  /\ break_elapsed_seconds' = break_elapsed_seconds + 1
  /\ remaining_seconds' = remaining_seconds - 1
  /\ LET remaining == break_total_seconds - break_elapsed_seconds'
     IN  IF overtime_starts(remaining, break_overtime_notified)
           THEN /\ break_overtime_notified' = TRUE
                /\ annoying_song_playing' = song_after_play(annoying_song_playing)
                /\ effects' = <<"tone:break_overtime", "notify:break_overtime">>
                                \o play_effects
           ELSE /\ UNCHANGED <<break_overtime_notified, annoying_song_playing>>
                /\ effects' = <<>>
  /\ probed' = FALSE
  /\ is_right' = FALSE
  /\ UNCHANGED <<is_running, is_on_break, is_wrong_app, is_stopped_counting,
                 stopped_elapsed_seconds,
                 idle_elapsed_seconds, wrong_app_start_time,
                 wrong_app_notified_time, idle_annoying_song_playing,
                 session_count, garden, timer_active, now>>


tick_break ==
  /\ ~(~is_running /\ ~is_on_break /\ ~is_stopped_counting)
  /\ ~is_stopped_counting
  /\ is_on_break
  /\ break_elapsed_seconds < Limit("break", MaxBreak)
  /\ break_elapsed_seconds' = break_elapsed_seconds + 1
  /\ LET remaining == break_total_seconds - break_elapsed_seconds'
     IN  IF overtime_starts(remaining, break_overtime_notified)
           THEN /\ break_overtime_notified' = TRUE
                /\ annoying_song_playing' = song_after_play(annoying_song_playing)
                /\ effects' = <<"tone:break_overtime", "notify:break_overtime">>
                                \o play_effects
           ELSE /\ UNCHANGED <<break_overtime_notified, annoying_song_playing>>
                /\ effects' = <<>>
  /\ probed' = FALSE
  /\ is_right' = FALSE
  /\ UNCHANGED <<is_running, is_on_break, is_wrong_app, is_stopped_counting,
                 remaining_seconds, stopped_elapsed_seconds,
                 idle_elapsed_seconds, wrong_app_start_time,
                 wrong_app_notified_time, idle_annoying_song_playing,
                 session_count, garden, timer_active, now>>

\* start_break, as on_tick calls it with the player state song and the calls
\* eff made so far
start_break(song, eff) ==
  /\ is_on_break' = TRUE
  /\ is_stopped_counting' = FALSE
  /\ stopped_elapsed_seconds' = 0
  /\ idle_elapsed_seconds' = 0
  /\ break_elapsed_seconds' = 0
  /\ break_overtime_notified' = FALSE
  /\ remaining_seconds' = break_total_seconds
  /\ IF idle_annoying_song_playing
       THEN /\ annoying_song_playing' = FALSE
            /\ idle_annoying_song_playing' = FALSE
            /\ effects' = eff \o <<"song:stop">>
       ELSE /\ annoying_song_playing' = song
            /\ UNCHANGED idle_annoying_song_playing
            /\ effects' = eff
  /\ timer_active' = TRUE

tick_work ==
  /\ ~(~is_running /\ ~is_on_break /\ ~is_stopped_counting)
  /\ ~is_stopped_counting
  /\ ~is_on_break
  /\ \E probe \in Probes :
     \E right \in {is_right_app(probe[1], probe[2], settings.right_apps)} :
       LET current_time == now + TickSeconds
           first_wrong == ~right /\ wrong_app_start_time = None
           start == IF right THEN None
                    ELSE IF first_wrong THEN current_time
                    ELSE wrong_app_start_time
           notify == ~right /\ should_notify(current_time, start,
                                             wrong_app_notified_time)
           remaining == IF right THEN on_task_remaining(remaining_seconds)
                        ELSE off_task_remaining(remaining_seconds,
                                                work_total_seconds)
           song == IF right THEN FALSE
                   ELSE IF first_wrong THEN song_after_play(annoying_song_playing)
                   ELSE annoying_song_playing
           eff == (IF right THEN <<"song:stop">>
                   ELSE IF first_wrong THEN play_effects ELSE <<>>)
                  \o (IF notify THEN <<"tone:wrong_app", "notify:wrong_app">>
                      ELSE <<>>)
       IN  /\ IF right
                THEN work_total_seconds - remaining_seconds
                       < (IF session_count < MaxSessions
                            THEN Limit("work", MaxProgress) ELSE MaxElapsed)
                ELSE now < Limit("wrong_app", MaxOffTask)
           /\ now' = clock_after(current_time, start)
           /\ probed' = TRUE
           /\ is_right' = right
           /\ is_wrong_app' = ~right
           /\ wrong_app_start_time' = start
           /\ wrong_app_notified_time' =
                IF right THEN None
                ELSE IF notify THEN current_time
                ELSE wrong_app_notified_time
           /\ IF work_complete(remaining)
                THEN /\ is_running' = FALSE
                     /\ record_completed_session(
                          Lowest(garden_positions(garden), MaxGardenChoice),
                          Lowest(FLOWERS, MaxGardenChoice))
                     /\ start_break(song, eff \o <<"tone:work_complete",
                                                   "notify:work_complete">>)
                ELSE /\ remaining_seconds' = remaining
                     /\ annoying_song_playing' = song
                     /\ effects' = eff
                     /\ UNCHANGED <<is_running, is_on_break,
                                    is_stopped_counting,
                                    stopped_elapsed_seconds,
                                    idle_elapsed_seconds,
                                    break_elapsed_seconds,
                                    break_overtime_notified,
                                    idle_annoying_song_playing,
                                    session_count, garden, timer_active>>

on_tick ==
  /\ timer_active
  /\ op' = "on_tick"
  /\ TickFrame
  /\ (tick_idle \/ tick_stopped \/ tick_break \/ tick_work)

Next == toggle_start \/ open_settings \/ on_tick

Spec == Init /\ [][Next]_vars

\* The program where the settings file may not be writable, in the runs that
\* follow an off-task episode.
AnySaveInit == Init /\ followed = "wrong_app"

AnySaveNext == toggle_start \/ open_settings_any_save \/ on_tick

AnySaveSpec == AnySaveInit /\ [][AnySaveNext]_vars

\* The garden alone: one step for each completed session.
garden_session ==
  /\ session_count < MaxGardenSessions
  /\ record_completed_session(garden_positions(garden), FlowerChoices)
  /\ UNCHANGED <<settings, work_total_seconds, break_total_seconds,
                 is_running, is_on_break, is_wrong_app, is_stopped_counting,
                 remaining_seconds, break_elapsed_seconds,
                 stopped_elapsed_seconds, idle_elapsed_seconds,
                 wrong_app_start_time, wrong_app_notified_time,
                 break_overtime_notified, idle_annoying_song_playing,
                 annoying_song_playing, timer_active, now, mp3_files,
                 settings_file, dialog, raised, followed, op, probed,
                 is_right, effects>>

GardenSpec == Init /\ [][garden_session]_vars

\* ---------------------------------------------------------------- phases

\* The phase the flags stand for, in the order on_tick tests them.
Phase ==
  IF ~is_running /\ ~is_on_break /\ ~is_stopped_counting THEN "Idle"
  ELSE IF is_stopped_counting THEN "Stopped"
  ELSE IF is_on_break THEN "Break"
  ELSE "Working"

Emitted(e) == \E i \in 1..Len(effects) : effects[i] = e

\* ---------------------------------------------------------------- claims

\* the value on_tick computes for remaining_seconds on this step's probe
TickValue ==
  IF is_right' THEN remaining_seconds - 1
  ELSE Min(remaining_seconds + 1, work_total_seconds)

\* this step is a tick handled in the work branch
WorkTick == op' = "on_tick" /\ Phase = "Working"

\* this step is the tick that brings remaining_seconds to zero
CompletionTick == WorkTick /\ TickValue <= 0

\* C1: whenever the phase is Working, 0 <= remaining_seconds <=
\* work_total_seconds, after any sequence of toggles, settings applies and
\* ticks.
C1_RemainingInRange ==
  Phase = "Working" =>
    (0 <= remaining_seconds /\ remaining_seconds <= work_total_seconds)

\* an off-task tick, at least the second of its episode, has left the value
\* at the total that a settings apply had set
C1_Witness ==
  /\ Phase = "Working"
  /\ op = "on_tick"
  /\ probed /\ ~is_right
  /\ remaining_seconds = work_total_seconds
  /\ now >= 2
  /\ settings.work_minutes = 25

\* C2 as stated: every tick processed in Working leaves remaining_seconds one
\* lower when on task, and at min(value + 1, work_total_seconds) when off task.
C2_Original ==
  [][WorkTick => remaining_seconds' = TickValue]_vars

\* C2 amended: the same for every Working tick that leaves the value above
\* zero; the tick that brings it to zero ends in start_break, which stores
\* break_total_seconds in remaining_seconds.
C2_TickArithmetic ==
  [][WorkTick =>
       IF TickValue <= 0
         THEN remaining_seconds' = break_total_seconds /\ Phase' = "Break"
         ELSE remaining_seconds' = TickValue /\ Phase' = "Working"]_vars

\* an on-task tick has just taken the second second off a work session
C2_Witness ==
  /\ Phase = "Working"
  /\ op = "on_tick"
  /\ probed /\ is_right
  /\ remaining_seconds = work_total_seconds - 2

NextPhase(ph) ==
  CASE ph = "Idle" -> "Working"
    [] ph = "Working" -> "Stopped"
    [] ph = "Stopped" -> "Break"
    [] ph = "Break" -> "Idle"

\* C3: toggle_start takes Idle to Working, Working to Stopped, Stopped to
\* Break and Break (in overtime or not) to Idle, and does nothing else to the
\* phase.
C3_ToggleTransitions ==
  [][op' = "toggle_start" => Phase' = NextPhase(Phase)]_vars

\* toggle_start has just left a break that was in overtime
C3_Witness ==
  /\ op = "toggle_start"
  /\ Phase = "Idle"
  /\ break_elapsed_seconds > break_total_seconds

\* C4: the phase becomes Break only by the Working tick that brings
\* remaining_seconds to zero or by toggle_start in Stopped.
C4_BreakEntry ==
  [][(Phase' = "Break" /\ Phase # "Break") =>
       \/ CompletionTick
       \/ (op' = "toggle_start" /\ Phase = "Stopped")]_vars

\* the completion tick has just entered the break
C4_Witness ==
  /\ Phase = "Break"
  /\ op = "on_tick"
  /\ Emitted("notify:work_complete")
  /\ break_elapsed_seconds = 0

\* C5: after a stop in Working the work session is never resumed: Stopped is
\* left only by toggle_start, into Break with break_elapsed_seconds = 0; Idle
\* is entered only from Break; and Working is entered only from Idle, with
\* remaining_seconds = work_total_seconds.
C5_StopDiscardsProgress ==
  [][/\ (Phase = "Stopped" /\ Phase' # "Stopped") =>
          (op' = "toggle_start" /\ Phase' = "Break"
             /\ break_elapsed_seconds' = 0)
     /\ (Phase' = "Idle" /\ Phase # "Idle") => Phase = "Break"
     /\ (Phase' = "Working" /\ Phase # "Working") =>
          (Phase = "Idle" /\ remaining_seconds' = work_total_seconds')]_vars

\* toggle_start has just entered the break from a first work session that
\* was stopped with at most half of its time left
C5_Witness ==
  /\ Phase = "Break"
  /\ op = "toggle_start"
  /\ session_count = 0
  /\ break_elapsed_seconds = 0
  /\ remaining_seconds * 2 <= work_total_seconds
  /\ remaining_seconds >= 1

C7_NotifySchedule ==
  /\ [](Phase # "Working" => wrong_app_start_time = None)
  /\ []((Phase = "Working" /\ op = "toggle_start") =>
          wrong_app_start_time = None)
  /\ [][/\ (WorkTick /\ is_right') => wrong_app_start_time' = None
        /\ (WorkTick /\ ~is_right') =>
             wrong_app_start_time' =
               (IF wrong_app_start_time = None THEN now'
                ELSE wrong_app_start_time)
        /\ Emitted("notify:wrong_app")' <=>
             /\ WorkTick /\ ~is_right'
             /\ now' - wrong_app_start_time' >= 5
             /\ (now' - wrong_app_start_time' - 5) % 10 = 0
        /\ Emitted("tone:wrong_app")' <=> Emitted("notify:wrong_app")']_vars

\* the third notification of one episode, 25 seconds after its first tick
C7_Witness ==
  /\ Phase = "Working"
  /\ Emitted("notify:wrong_app")
  /\ now - wrong_app_start_time = 25

\* C8: break_overtime_notified is false at every entry into Break and, within
\* a break, true exactly once a tick has left break_elapsed_seconds above
\* break_total_seconds; the overtime tone and notification are made by the
\* first such tick of the break and by no other step.
C8_OvertimeOnce ==
  [][/\ (Phase' = "Break" /\ Phase # "Break") => ~break_overtime_notified'
     /\ (Phase = "Break" /\ Phase' = "Break") =>
          (break_overtime_notified' <=>
             \/ break_overtime_notified
             \/ (op' = "on_tick"
                   /\ break_elapsed_seconds' > break_total_seconds'))
     /\ Emitted("notify:break_overtime")' <=>
          /\ op' = "on_tick" /\ Phase = "Break"
          /\ break_elapsed_seconds' > break_total_seconds'
          /\ ~break_overtime_notified
     /\ Emitted("tone:break_overtime")' <=>
          Emitted("notify:break_overtime")']_vars

\* the tick after the one that notified: two seconds of overtime, nothing made
C8_Witness ==
  /\ Phase = "Break"
  /\ op = "on_tick"
  /\ break_overtime_notified
  /\ break_elapsed_seconds = break_total_seconds + 2
  /\ effects = <<>>

\* C9: the session counter starts at zero; the tick that brings
\* remaining_seconds to zero adds one to it and rewrites at most one garden
\* slot; every other step (the skip from Stopped to Break, the stop of a
\* break, a settings apply, any other tick) leaves both unchanged.
C9_RecordedOncePerCompletion ==
  /\ session_count = 0
  /\ [][IF CompletionTick
          THEN /\ session_count' = session_count + 1
               /\ Cardinality({i \in 1..GardenSlots : garden'[i] # garden[i]})
                    <= 1
               /\ seedling_positions(garden) # {} => garden' # garden
          ELSE session_count' = session_count /\ garden' = garden]_vars

\* toggle_start has just skipped from Stopped to Break after one completed
\* session
C9_Witness ==
  /\ Phase = "Break"
  /\ op = "toggle_start"
  /\ session_count = 1
  /\ Cardinality(seedling_positions(garden)) = GardenSlots - 1

NonSeedlings(g) == Cardinality({i \in 1..Len(g) : g[i] # PLANT})

Changed(g, h) == {i \in 1..GardenSlots : g[i] # h[i]}

\* C10: the garden always has 5 slots; a recorded session never lowers the
\* number of non-seedling slots: while a seedling is left it turns exactly one
\* seedling into a flower, and once all 5 are flowers it rewrites at most one
\* slot, with a flower, so that no seedling comes back.
C10_GardenFillsThenChurns ==
  /\ [](Len(garden) = 5)
  /\ [][/\ NonSeedlings(garden') >= NonSeedlings(garden)
        /\ seedling_positions(garden) # {} =>
             /\ NonSeedlings(garden') = NonSeedlings(garden) + 1
             /\ Cardinality(Changed(garden, garden')) = 1
             /\ \A i \in Changed(garden, garden') :
                  garden[i] = PLANT /\ garden'[i] \in FLOWERS
        /\ seedling_positions(garden) = {} =>
             /\ seedling_positions(garden') = {}
             /\ Cardinality(Changed(garden, garden')) <= 1
             /\ \A i \in 1..GardenSlots : garden'[i] \in FLOWERS]_vars

\* a full garden whose latest session rewrote a flower
C10_Witness ==
  /\ seedling_positions(garden) = {}
  /\ session_count = GardenSlots + 2

\* this step is an accepted settings dialog
Apply == op' = "open_settings"

\* C11: applying settings never changes the phase: in Working, in Idle and in
\* Stopped it sets remaining_seconds to the new work_total_seconds (the new
\* work_minutes * 60), in Break it sets break_elapsed_seconds to 0; the
\* garden, the session counter and the wrong-app fields are left unchanged.
C11_ApplyKeepsPhase ==
  [][Apply =>
       /\ Phase' = Phase
       /\ work_total_seconds' = settings'.work_minutes * 60
       /\ Phase \in {"Working", "Idle", "Stopped"} =>
            remaining_seconds' = work_total_seconds'
       /\ Phase = "Break" => break_elapsed_seconds' = 0
       /\ UNCHANGED <<garden, session_count, is_wrong_app,
                      wrong_app_start_time, wrong_app_notified_time>>]_vars

\* a dialog accepted in Working whose file could not be written: the session
\* keeps the seconds it had
C11_Witness ==
  /\ op = "open_settings"
  /\ raised
  /\ Phase = "Working"
  /\ remaining_seconds # settings.work_minutes * 60

Blank(s) == \A i \in 1..Len(s) : s[i] = " "

NotBlank(s) == ~Blank(s)

\* int(text) as the claim sees it: no value when the text does not parse
Parsed(text, default) ==
  IF int(text).ok THEN (IF int(text).val >= 1 THEN int(text).val ELSE 1)
  ELSE default

\* C12: after get_settings, a minutes text that does not parse as an integer
\* has become the default of its field (25 for work, 5 for break) and one
\* that parses as n has become max(1, n); the fragments are the non-blank
\* pieces of the apps text, trimmed, in order, or the default pair when no
\* piece is left; so work_minutes >= 1, break_minutes >= 1 and the fragment
\* list is non-empty and holds no empty fragment.
C12_Validation ==
  op = "get_settings" =>
    LET kept == SelectSeq(split(dialog[1]), NotBlank)
        apps == settings.right_apps
    IN  /\ settings.work_minutes = Parsed(dialog[2], 25)
        /\ settings.break_minutes = Parsed(dialog[3], 5)
        /\ dialog[2] = <<"3", "0">> => settings.work_minutes = 30
        /\ dialog[2] = <<"-", "2">> => settings.work_minutes = 1
        /\ dialog[2] = <<"2", ".", "5">> => settings.work_minutes = 25
        /\ dialog[3] = <<>> => settings.break_minutes = 5
        /\ dialog[3] = <<" ", "1", " ">> => settings.break_minutes = 1
        /\ settings.work_minutes >= 1
        /\ settings.break_minutes >= 1
        /\ apps # <<>>
        /\ \A i \in 1..Len(apps) :
             apps[i] # <<>> /\ apps[i][1] # " " /\ apps[i][Len(apps[i])] # " "
        /\ IF kept = <<>> THEN apps = <<blender, houdini>>
           ELSE /\ Len(apps) = Len(kept)
                /\ \A i \in 1..Len(kept) : apps[i] = strip(kept[i])

\* a negative work time, a break time that is no number, and an apps text
\* of which two fragments are left
C12_Witness ==
  /\ op = "get_settings"
  /\ dialog = <<<<"B", ",", " ", "x", " ", "h", " ">>, <<"-", "2">>, <<"x">>>>
  /\ settings.right_apps = <<<<"B">>, <<"x", " ", "h">>>>
  /\ settings.work_minutes = 1
  /\ settings.break_minutes = 5

\* C13: a dialog accepted right after another one, with the same record, leaves
\* work_total_seconds, break_total_seconds, the phase, remaining_seconds and
\* break_elapsed_seconds as the first left them, and neither of the two makes
\* a tone, a notification or a player call.
C13_ApplyTwice ==
  [][(op = "open_settings" /\ Apply /\ settings' = settings) =>
       /\ UNCHANGED <<work_total_seconds, break_total_seconds,
                      remaining_seconds, break_elapsed_seconds>>
       /\ Phase' = Phase
       /\ effects = <<>>
       /\ effects' = <<>>]_vars

\* the two totals are the minutes of the held settings, in seconds
TotalsDerived ==
  /\ work_total_seconds = settings.work_minutes * 60
  /\ break_total_seconds = settings.break_minutes * 60

\* C16: a write of the settings file that fails is ignored and the apply
\* completes: no exception leaves open_settings, the phase's reset is done
\* (remaining_seconds in Working, Idle and Stopped, break_elapsed_seconds in
\* Break), and in every reachable state work_total_seconds = work_minutes * 60
\* and break_total_seconds = break_minutes * 60 for the held settings.
C16_SaveFailureIgnored ==
  /\ []TotalsDerived
  /\ [][Apply =>
          /\ ~raised'
          /\ Phase = "Break" => break_elapsed_seconds' = 0
          /\ Phase # "Break" =>
               remaining_seconds' = settings'.work_minutes * 60]_vars

\* the write failed in Idle: the record says one minute of break, the break
\* total still says five
C16_Witness ==
  /\ op = "open_settings"
  /\ raised
  /\ Phase = "Idle"
  /\ settings.break_minutes = 1
  /\ break_total_seconds = 300
  /\ settings_file = NoFile

\* C14: load_settings on a stored record that lacks any subset of right_apps,
\* work_minutes and break_minutes returns a record with the three fields, in
\* which a missing field has its default (the blender/houdini pair, 25, 5)
\* and a present field keeps its stored value.
C14_MissingFieldsDefaulted ==
  (op = "load_settings" /\ settings_file.kind = "object") =>
    LET data == settings_file.data
    IN  /\ ~raised
        /\ DOMAIN settings = SettingsKeys
        /\ \A k \in DOMAIN data : settings[k] = data[k]
        /\ "right_apps" \notin DOMAIN data =>
             settings.right_apps = <<blender, houdini>>
        /\ "work_minutes" \notin DOMAIN data => settings.work_minutes = 25
        /\ "break_minutes" \notin DOMAIN data => settings.break_minutes = 5

\* a file without break_minutes: five minutes of break, the rest as stored
C14_Witness ==
  /\ op = "load_settings"
  /\ settings_file = ObjectFile([right_apps |-> <<blender>>, work_minutes |-> 30])
  /\ settings = [right_apps |-> <<blender>>, work_minutes |-> 30,
                 break_minutes |-> 5]
  /\ break_total_seconds = 300

\* C15: load_settings never raises and gives usable durations: for a missing
\* file, an unparsable file and a file that holds well-formed JSON other than
\* a record, it returns, and work_minutes and break_minutes are positive
\* integers (the defaults 25 and 5).  The files of LoadSpec hold numbers in
\* their duration fields, so the claim's fourth case, a record whose
\* duration fields are no numbers, is not among them.
C15_LoadNeverFails ==
  (op = "load_settings" /\ settings_file.kind # "object") =>
    /\ ~raised
    /\ settings.work_minutes = 25
    /\ settings.break_minutes = 5

\* the file holds [] and the constructor ended in load_settings
C15_Witness ==
  /\ op = "load_settings"
  /\ settings_file = NonRecordFile("list")
  /\ raised
  /\ work_total_seconds = 0

\* one of the two wrong-app timestamps is set
Tracking == wrong_app_start_time # None \/ wrong_app_notified_time # None

\* C17: the two wrong-app timestamps are set only in Working and only while
\* the latest tick was off-task: they become set by an off-task Working tick
\* and stay set only through such ticks and steps that are no ticks; an
\* on-task tick, the stop of a work session and the completion clear both;
\* wrong_app_notified_time is never set while wrong_app_start_time is not.
C17_WrongAppTracking ==
  /\ [](Tracking => Phase = "Working")
  /\ [](wrong_app_notified_time # None => wrong_app_start_time # None)
  /\ [][/\ Tracking' =>
             \/ (WorkTick /\ ~is_right')
             \/ (op' # "on_tick" /\ Tracking)
        /\ (WorkTick /\ is_right') => ~Tracking'
        /\ (op' = "toggle_start" /\ Phase = "Working") => ~Tracking'
        /\ CompletionTick => ~Tracking']_vars

\* a work session stopped during an off-task episode that had been notified
C17_Witness ==
  /\ op = "toggle_start"
  /\ Phase = "Stopped"
  /\ ~Tracking
  /\ now >= FirstNotifyDelay

\* C18: both entries into Break (the completion of a work session and
\* toggle_start in Stopped) stop the annoying song, so that in Break, as long
\* as this break has not gone into overtime, annoying_song_playing is false.
C18_BreakEntryStopsAudio ==
  /\ [][(Phase' = "Break" /\ Phase # "Break") => ~annoying_song_playing']_vars
  /\ []((Phase = "Break" /\ ~break_overtime_notified) =>
          ~annoying_song_playing)

\* toggle_start has just skipped from Stopped to Break with the song, started
\* by an off-task tick of the stopped session, still looping
C18_Witness ==
  /\ op = "toggle_start"
  /\ Phase = "Break"
  /\ break_elapsed_seconds = 0
  /\ ~break_overtime_notified
  /\ annoying_song_playing

\* Working is entered with the song off and out of the wrong-app state, and
\* a tick that stays in Working leaves is_wrong_app true exactly when its
\* probe was off-task.
WrongAppIsLatestTick ==
  [][/\ (Phase' = "Working" /\ Phase # "Working") =>
          (~annoying_song_playing' /\ ~is_wrong_app')
     /\ (WorkTick /\ Phase' = "Working") => (is_wrong_app' <=> ~is_right')
     /\ (op' # "on_tick" /\ Phase = "Working" /\ Phase' = "Working") =>
          UNCHANGED <<is_wrong_app, annoying_song_playing>>]_vars

\* C19 as stated: in Working, annoying_song_playing is true exactly in the
\* wrong-app state (the latest tick was off-task): off when Working is
\* entered, on from the first off-task tick of an episode, off again from
\* the next on-task tick.
C19_Original ==
  /\ WrongAppIsLatestTick
  /\ [](Phase = "Working" => (annoying_song_playing <=> is_wrong_app))

\* C19 amended: the same when annoying_songs_mp3 holds an mp3; when it holds
\* none, play_annoying_song_loop returns before it sets the flag and
\* annoying_song_playing stays false throughout Working.
C19_AudioTracksWrongApp ==
  /\ WrongAppIsLatestTick
  /\ [](Phase = "Working" =>
          (annoying_song_playing <=> (is_wrong_app /\ mp3_files)))

\* the second off-task tick of an episode, with the song looping
C19_Witness ==
  /\ Phase = "Working"
  /\ op = "on_tick"
  /\ probed /\ ~is_right
  /\ now = wrong_app_start_time + 1
  /\ is_wrong_app
  /\ mp3_files
  /\ annoying_song_playing

\* C20: the one-second timer is active in every phase for the whole life of
\* the process, Idle re-entered from a break included, and each of its ticks
\* adds one to idle_elapsed_seconds in Idle and to stopped_elapsed_seconds in
\* Stopped.
C20_TickStaysActive ==
  /\ []timer_active
  /\ [][/\ (op' = "on_tick" /\ Phase = "Idle") =>
             idle_elapsed_seconds' = idle_elapsed_seconds + 1
        /\ (op' = "on_tick" /\ Phase = "Stopped") =>
             stopped_elapsed_seconds' = stopped_elapsed_seconds + 1]_vars

\* Idle after the stop of a break, with the timer stopped
C20_Witness ==
  /\ Phase = "Idle"
  /\ op = "toggle_start"
  /\ ~timer_active
  /\ idle_elapsed_seconds = 0

\* what the window holds besides the three elapsed counters, the overtime
\* flag and the player flag
EngineRest ==
  <<is_running, is_on_break, is_stopped_counting, is_wrong_app,
    remaining_seconds, garden, session_count, wrong_app_start_time,
    wrong_app_notified_time, idle_annoying_song_playing, settings,
    work_total_seconds, break_total_seconds, timer_active>>

\* C21: a tick in Idle changes only idle_elapsed_seconds, a tick in Stopped
\* only stopped_elapsed_seconds, a tick in Break only break_elapsed_seconds,
\* and, on the tick that starts the overtime, break_overtime_notified and
\* annoying_song_playing; each adds one to its counter; none changes the
\* phase, remaining_seconds, the garden, the session counter or the wrong-app
\* fields, and none queries the foreground window.
C21_TickFrames ==
  [][(op' = "on_tick" /\ Phase # "Working") =>
       /\ Phase' = Phase
       /\ ~probed'
       /\ UNCHANGED EngineRest
       /\ idle_elapsed_seconds' =
            idle_elapsed_seconds + (IF Phase = "Idle" THEN 1 ELSE 0)
       /\ stopped_elapsed_seconds' =
            stopped_elapsed_seconds + (IF Phase = "Stopped" THEN 1 ELSE 0)
       /\ break_elapsed_seconds' =
            break_elapsed_seconds + (IF Phase = "Break" THEN 1 ELSE 0)
       /\ (\/ break_overtime_notified' # break_overtime_notified
           \/ annoying_song_playing' # annoying_song_playing) =>
            /\ Phase = "Break"
            /\ ~break_overtime_notified
            /\ break_overtime_notified'
            /\ break_elapsed_seconds' > break_total_seconds]_vars

\* the break tick that starts the overtime and the song, with the seconds
\* left of the stopped work session untouched
C21_Witness ==
  /\ op = "on_tick"
  /\ Phase = "Break"
  /\ Emitted("notify:break_overtime")
  /\ annoying_song_playing
  /\ break_elapsed_seconds = break_total_seconds + 1
  /\ remaining_seconds < work_total_seconds
  /\ session_count = 0

\* C22: with work_minutes >= 1 a work session completes only on an on-task
\* tick. An off-task tick leaves the phase Working, the session counter and
\* the garden alone and remaining_seconds at min(remaining_seconds + 1,
\* work_total_seconds), which is positive and stays at work_total_seconds
\* once there, however long the off-task run; the tick that leaves Working
\* is on-task, enters Break, and finds and leaves is_wrong_app and both
\* timestamps cleared.
C22_CompletesOnTaskOnly ==
  [][settings.work_minutes >= 1 =>
       /\ (WorkTick /\ ~is_right') =>
            /\ Phase' = "Working"
            /\ remaining_seconds' =
                 Min(remaining_seconds + 1, work_total_seconds)
            /\ remaining_seconds' > 0
            /\ (remaining_seconds = work_total_seconds =>
                  remaining_seconds' = work_total_seconds)
            /\ UNCHANGED <<session_count, garden>>
       /\ (WorkTick /\ Phase' # "Working") =>
            /\ is_right'
            /\ Phase' = "Break"
            /\ ~Tracking /\ ~is_wrong_app
            /\ ~Tracking' /\ ~is_wrong_app']_vars

\* twenty seconds into an off-task run, after a repeated notification, the
\* session is still Working with every second of it left
C22_Witness ==
  /\ op = "on_tick"
  /\ Phase = "Working"
  /\ probed /\ ~is_right /\ is_wrong_app
  /\ settings.work_minutes >= 1
  /\ remaining_seconds = work_total_seconds
  /\ wrong_app_start_time # None
  /\ now - wrong_app_start_time >= 20
  /\ wrong_app_notified_time > wrong_app_start_time + FirstNotifyDelay
  /\ session_count = 0

\* C23: in every reachable state at most one of is_running, is_on_break and
\* is_stopped_counting is true, so that the phase is Working exactly when
\* is_running, Break exactly when is_on_break, Stopped exactly when
\* is_stopped_counting and Idle exactly when none is; and is_wrong_app is
\* true only while is_running is.
C23_FlagsExclusive ==
  /\ ~(is_running /\ is_on_break)
  /\ ~(is_running /\ is_stopped_counting)
  /\ ~(is_on_break /\ is_stopped_counting)
  /\ Phase = "Working" <=> is_running
  /\ Phase = "Break" <=> is_on_break
  /\ Phase = "Stopped" <=> is_stopped_counting
  /\ Phase = "Idle" <=> ~(is_running \/ is_on_break \/ is_stopped_counting)
  /\ is_wrong_app => is_running

\* a work session stopped out of the wrong-app state: the song it started
\* still plays, is_stopped_counting is the one flag set and is_wrong_app is
\* cleared
C23_Witness ==
  /\ op = "toggle_start"
  /\ is_stopped_counting /\ ~is_running /\ ~is_on_break
  /\ ~is_wrong_app
  /\ annoying_song_playing
  /\ stopped_elapsed_seconds = 0
  /\ remaining_seconds = work_total_seconds
  /\ session_count = 0

\* C24: in every reachable state the number of garden slots that hold no
\* seedling is min(session_count, 5), session_count being the number of work
\* sessions completed since the window was built.
C24_FlowersCountSessions ==
  NonSeedlings(garden) = Min(session_count, GardenSlots)

\* one session after the garden filled up: six sessions, five flowers
C24_Witness ==
  /\ session_count = GardenSlots + 1
  /\ NonSeedlings(garden) = GardenSlots
  /\ \A i \in 1..GardenSlots : garden[i] \in FLOWERS

====
